---- MODULE Spec2Model ----
(***************************************************************************)
(* Cross-chain settlement system (src/hard-settlement-system):             *)
(*   - DistributedLockManager   (distributed_lock.py)                      *)
(*   - IdempotencyStore         (idempotency_store.py)                     *)
(*   - BlockchainSimulator, SettlementEngine (settlement_engine.py)        *)
(*                                                                         *)
(* The specifications share the variables:                                 *)
(*   SpecLock    the lock manager driven directly through its API          *)
(*   SpecStore   the idempotency store driven directly through its API     *)
(*   Spec         settlements initiated by one client thread and processed *)
(*                concurrently by the threads of Workers                   *)
(*   SpecInitiate initiate_settlement called concurrently by Clients       *)
(*   SpecOwnKeys  initiate_settlement called once by each client, with     *)
(*                pairwise distinct idempotency keys                       *)
(*   SpecRestart  the engine called by one thread, with service restarts   *)
(*   SpecSequential the engine called by one thread, retry and            *)
(*                compensation included                                    *)
(*   SpecPool     settlements processed by the threads of a WorkerPool,    *)
(*                under weak fairness                                      *)
(*   SpecPoolFaults the same, with ledger calls that may fail              *)
(*   SpecCrash    a worker that may die while processing, and one that     *)
(*                retries                                                  *)
(*   SpecParallel each settlement processed by a thread of its own         *)
(*   SpecContend  one settlement processed by the threads of Workers at    *)
(*                once                                                     *)
(*   SpecReader   the same, with a reader of get_all_settlements           *)
(*                                                                         *)
(* USDC mint service (src/medium-usdc-mint-service), its account transfer:  *)
(*   SpecTransfer _transfer_between_accounts called concurrently           *)
(* Payment processor (src/easy-payment-processor):                         *)
(*   SpecPayment  process_payment called concurrently                      *)
(*                                                                         *)
(* Time is the value of time.time() in units of 30 s, the TTL of the lock   *)
(* process_settlement takes (ttl_seconds=30).                              *)
(***************************************************************************)
EXTENDS Integers, FiniteSets, Sequences, TLC

\* ---------------------------------------------------------------- bounds
MaxTime == 2
MaxSettlements == 2
MaxTtl == 2
InitBalance == 2
MaxCalls == 4

\* ------------------------------------------------------- program constants
\* process_settlement: ttl_seconds=30, one time unit
ProcessTtl == 1

\* threads: clients call initiate_settlement, workers call process_settlement
Clients == {"Client-0", "Client-1"}
Workers == {"Worker-0", "Worker-1"}
Threads == Clients \cup Workers
MainThread == "Client-0"
Holders == Workers
\* the idempotency keys the engine's callers use, and those the store is called with
Keys == {"key1", "key2"}
StoreKeys == Keys \cup {"key3"}
Amounts == {-1, 0, 1, 2}
SettlementIds == 1..MaxSettlements
\* the lock keys the lock manager is called with directly
LockKeys == {"lock1", "lock2"}
Ttls == 1..MaxTtl
None == "None"
\* Optional[str] settlement id that is None, and Optional[str] tx hash that is None
NoId == 0
NoHash == <<>>
Chains == {"A", "B"}
SourceChains == {"A"}
DestChains == {"B"}
Users == {"user1"}

VARIABLES
    now,                \* time.time()
    locks,              \* DistributedLockManager.locks, as the set of its LockInfo values
    lockCall,           \* the last direct call of the lock manager's API and its result
    store,              \* IdempotencyStore.store
    storeCall,          \* the last direct call of the store's API and its result
    settlements,        \* SettlementEngine.settlements
    settlement_counter, \* SettlementEngine.settlement_counter
    balances,           \* BlockchainSimulator.balances
    tx_counter,         \* BlockchainSimulator.tx_counter
    pc,                 \* each thread's position in the engine call it is running
    arg,                \* each thread's arguments of that call
    loc,                \* each thread's local variables of that call
    ret,                \* what each thread's last finished call returned or raised
    calls,              \* history: engine calls made so far
    issued,             \* history: the settlement id first returned for each idempotency key
    created,            \* history: Settlement objects initiate_settlement has stored
    burns,              \* history: successful burn_tokens calls made for each settlement
    mints,              \* history: successful mint_tokens calls made for each settlement
    running,            \* WorkerPool.running
    workers,            \* WorkerPool.workers, as the set of the threads' names
    pending,            \* each pool worker's list `pending`, what is left of it to process
    account_locks,      \* mint service Storage.account_locks: the thread holding each Lock
    account_balances,   \* mint service Storage.balances
    payment_balances,   \* PaymentProcessor.balances
    processed_payments, \* PaymentProcessor.processed_payments
    transaction_counter,\* PaymentProcessor.transaction_counter
    pay_log,            \* history: the process_payment calls that returned, in order
    snapshot,           \* the list get_all_settlements last returned: references to the
                        \* live Settlement objects, kept as their ids
    snapshot_seen       \* history: the settlements as they were when it was returned

lockVars == <<locks, lockCall>>
storeVars == <<store, storeCall>>
ledgerVars == <<balances, tx_counter>>
engineVars == <<settlements, settlement_counter>>
threadVars == <<pc, arg, loc, ret>>
histVars == <<calls, issued, created, burns, mints>>
poolVars == <<running, workers, pending>>
mintVars == <<account_locks, account_balances>>
payVars == <<payment_balances, processed_payments, transaction_counter, pay_log>>
serviceVars == <<mintVars, payVars>>
readerVars == <<snapshot, snapshot_seen>>
settlementVars == <<now, poolVars, lockVars, storeVars, engineVars, ledgerVars, histVars, readerVars>>
vars == <<now, locks, lockCall, store, storeCall, settlements, settlement_counter,
          balances, tx_counter,
          pc, arg, loc, ret, calls, issued, created, burns, mints,
          running, workers, pending,
          account_locks, account_balances,
          payment_balances, processed_payments, transaction_counter, pay_log,
          snapshot, snapshot_seen>>

\* ================================================================ lock manager
LockInfo(lock_key, holder_id, acquired_at, ttl_seconds) ==
    [lock_key |-> lock_key, holder_id |-> holder_id,
     acquired_at |-> acquired_at, ttl_seconds |-> ttl_seconds]

\* is_expired with >= for >: the lock is lost at its deadline instead of after it
is_expired_at_deadline(lock, t) == t >= lock.acquired_at + lock.ttl_seconds

\* LockInfo.is_expired, at time t
is_expired(lock, t) == t > lock.acquired_at + lock.ttl_seconds

\* self.locks, read at lock_key: the set of records stored under the key
LocksAt(tbl, lock_key) == {r \in tbl : r.lock_key = lock_key}

\* self.locks[lock_key] = info
DictSet(tbl, info) == (tbl \ LocksAt(tbl, info.lock_key)) \cup {info}

\* del self.locks[lock_key]
DictDel(tbl, lock_key) == tbl \ LocksAt(tbl, lock_key)

\* the stub the skeleton started from: grant without looking at the table
acquire_always(tbl, lock_key, holder_id, ttl_seconds, t) ==
    [ok |-> TRUE, locks |-> DictSet(tbl, LockInfo(lock_key, holder_id, t, ttl_seconds))]

\* one lock for the whole table: any live record of another holder excludes
acquire_global(tbl, lock_key, holder_id, ttl_seconds, t) ==
    IF \E r \in tbl : r.holder_id # holder_id /\ ~is_expired(r, t)
    THEN [ok |-> FALSE, locks |-> tbl]
    ELSE [ok |-> TRUE, locks |-> DictSet(tbl, LockInfo(lock_key, holder_id, t, ttl_seconds))]

\* DistributedLockManager.acquire, one critical section of manager_lock
acquire(tbl, lock_key, holder_id, ttl_seconds, t) ==
    IF LocksAt(tbl, lock_key) # {}
    THEN LET existing_lock == CHOOSE r \in LocksAt(tbl, lock_key) : TRUE IN
         IF is_expired(existing_lock, t)
         THEN [ok |-> TRUE,
               locks |-> DictSet(DictDel(tbl, lock_key),
                                 LockInfo(lock_key, holder_id, t, ttl_seconds))]
         ELSE IF existing_lock.holder_id = holder_id
         THEN [ok |-> TRUE,
               locks |-> DictSet(tbl, [existing_lock EXCEPT !.acquired_at = t])]
         ELSE [ok |-> FALSE, locks |-> tbl]
    ELSE [ok |-> TRUE, locks |-> DictSet(tbl, LockInfo(lock_key, holder_id, t, ttl_seconds))]

\* DistributedLockManager.release: the critical section is `pass`, then return True
release(tbl, lock_key, holder_id, t) == [ok |-> TRUE, locks |-> tbl]

\* DistributedLockManager.extend: the critical section is `pass`, then return False
extend(tbl, lock_key, holder_id, additional_ttl, t) == [ok |-> FALSE, locks |-> tbl]

\* DistributedLockManager.is_locked
is_locked(tbl, lock_key, t) ==
    IF LocksAt(tbl, lock_key) = {}
    THEN [ok |-> FALSE, locks |-> tbl]
    ELSE LET lock_info == CHOOSE r \in LocksAt(tbl, lock_key) : TRUE IN
         IF is_expired(lock_info, t)
         THEN [ok |-> FALSE, locks |-> DictDel(tbl, lock_key)]
         ELSE [ok |-> TRUE, locks |-> tbl]

\* cleanup that drops every record, expired or not
cleanup_all_locks(tbl, t) == [ok |-> Cardinality(tbl), locks |-> {}]

\* DistributedLockManager.cleanup_expired_locks
cleanup_expired_locks(tbl, t) ==
    LET expired_keys == {r.lock_key : r \in {x \in tbl : is_expired(x, t)}} IN
    [ok |-> Cardinality(expired_keys),
     locks |-> {r \in tbl : r.lock_key \notin expired_keys}]

NoCall == [op |-> "none"]

LockCallRecord(op, lock_key, holder_id, ttl, res) ==
    [op |-> op, lock_key |-> lock_key, holder_id |-> holder_id, ttl |-> ttl,
     at |-> now, before |-> locks, result |-> res.ok]

\* time.time() advances
Tick ==
    /\ now < MaxTime
    /\ now' = now + 1
    /\ UNCHANGED <<readerVars, serviceVars, lockVars, storeVars, engineVars, ledgerVars, threadVars, histVars,
                   poolVars>>

LockAcquire(k, h, ttl) ==
    LET res == acquire(locks, k, h, ttl, now) IN
    /\ locks' = res.locks
    /\ lockCall' = LockCallRecord("acquire", k, h, ttl, res)
    /\ UNCHANGED <<readerVars, serviceVars, now, poolVars, storeVars, engineVars, ledgerVars, threadVars, histVars>>

LockRelease(k, h) ==
    LET res == release(locks, k, h, now) IN
    /\ locks' = res.locks
    /\ lockCall' = LockCallRecord("release", k, h, 0, res)
    /\ UNCHANGED <<readerVars, serviceVars, now, poolVars, storeVars, engineVars, ledgerVars, threadVars, histVars>>

LockExtend(k, h, ttl) ==
    LET res == extend(locks, k, h, ttl, now) IN
    /\ locks' = res.locks
    /\ lockCall' = LockCallRecord("extend", k, h, ttl, res)
    /\ UNCHANGED <<readerVars, serviceVars, now, poolVars, storeVars, engineVars, ledgerVars, threadVars, histVars>>

LockIsLocked(k) ==
    LET res == is_locked(locks, k, now) IN
    /\ locks' = res.locks
    /\ lockCall' = LockCallRecord("is_locked", k, None, 0, res)
    /\ UNCHANGED <<readerVars, serviceVars, now, poolVars, storeVars, engineVars, ledgerVars, threadVars, histVars>>

LockCleanup ==
    LET res == cleanup_expired_locks(locks, now) IN
    /\ locks' = res.locks
    /\ lockCall' = LockCallRecord("cleanup_expired_locks", None, None, 0, res)
    /\ UNCHANGED <<readerVars, serviceVars, now, poolVars, storeVars, engineVars, ledgerVars, threadVars, histVars>>

\* ============================================================ idempotency store
\* a Python dict is a function whose domain is the set of its keys
EmptyDict == [k \in {} |-> None]
DictPut(d, k, v) == [x \in (DOMAIN d) \cup {k} |-> IF x = k THEN v ELSE d[x]]
DictRemove(d, k) == [x \in (DOMAIN d) \ {k} |-> d[x]]

EmptyStore == EmptyDict

\* IdempotencyStore.put: self.store[idempotency_key] = settlement_id
put(st, idempotency_key, settlement_id) == DictPut(st, idempotency_key, settlement_id)

\* a lookup that finds nothing
get_nothing(st, idempotency_key) == NoId

\* IdempotencyStore.get: self.store.get(idempotency_key)
get(st, idempotency_key) ==
    IF idempotency_key \in DOMAIN st THEN st[idempotency_key] ELSE NoId

\* IdempotencyStore.delete
delete(st, idempotency_key) ==
    IF idempotency_key \in DOMAIN st THEN DictRemove(st, idempotency_key) ELSE st

\* IdempotencyStore.__init__ with a persistence file: self.store = {}, then
\* _load_from_disk, whose body is `pass` (nothing is ever read, and put never
\* writes the file)
load_from_disk == EmptyStore

StoreCallRecord(op, k, v, res) ==
    [op |-> op, key |-> k, value |-> v, before |-> store, result |-> res]

StorePut(k, sid) ==
    /\ store' = put(store, k, sid)
    /\ storeCall' = StoreCallRecord("put", k, sid, NoId)
    /\ UNCHANGED <<readerVars, serviceVars, now, poolVars, lockVars, engineVars, ledgerVars, threadVars, histVars>>

StoreGet(k) ==
    /\ storeCall' = StoreCallRecord("get", k, NoId, get(store, k))
    /\ UNCHANGED <<readerVars, serviceVars, now, poolVars, lockVars, store, engineVars, ledgerVars, threadVars, histVars>>

StoreDelete(k) ==
    /\ store' = delete(store, k)
    /\ storeCall' = StoreCallRecord("delete", k, NoId, NoId)
    /\ UNCHANGED <<readerVars, serviceVars, now, poolVars, lockVars, engineVars, ledgerVars, threadVars, histVars>>

\* a new IdempotencyStore(persistence_file) replaces the running instance
StoreReopen ==
    /\ store' = load_from_disk
    /\ storeCall' = StoreCallRecord("reopen", None, NoId, NoId)
    /\ UNCHANGED <<readerVars, serviceVars, now, poolVars, lockVars, engineVars, ledgerVars, threadVars, histVars>>

\* IdempotencyStore.clear
StoreClear ==
    /\ store' = EmptyStore
    /\ storeCall' = StoreCallRecord("clear", None, NoId, NoId)
    /\ UNCHANGED <<readerVars, serviceVars, now, poolVars, lockVars, engineVars, ledgerVars, threadVars, histVars>>

\* ======================================================= blockchain simulator
\* BlockchainSimulator.get_balance: self.balances.get(chain, {}).get(user_id, 0.0)
get_balance(bal, chain, user_id) ==
    IF chain \in DOMAIN bal /\ user_id \in DOMAIN bal[chain] THEN bal[chain][user_id] ELSE 0

\* self.balances[chain][user_id] = amount
SetBalance(bal, chain, user_id, amount) ==
    DictPut(bal, chain,
            DictPut(IF chain \in DOMAIN bal THEN bal[chain] ELSE EmptyDict, user_id, amount))

\* BlockchainSimulator.burn_tokens: the outcome of one call
burn_tokens(bal, txc, fail, chain, user_id, amount) ==
    IF fail
    THEN [ok |-> FALSE, error |-> "Burn failed", balances |-> bal, tx_counter |-> txc,
          tx |-> NoHash]
    ELSE IF get_balance(bal, chain, user_id) < amount
    THEN [ok |-> FALSE, error |-> "Insufficient balance", balances |-> bal,
          tx_counter |-> txc, tx |-> NoHash]
    ELSE [ok |-> TRUE, error |-> None,
          balances |-> SetBalance(bal, chain, user_id, get_balance(bal, chain, user_id) - amount),
          tx_counter |-> txc + 1, tx |-> <<"burn_tx", txc + 1>>]

\* a mint that reports a transaction but credits nothing
mint_tokens_no_credit(bal, txc, fail, chain, user_id, amount) ==
    IF fail
    THEN [ok |-> FALSE, error |-> "Mint failed", balances |-> bal, tx_counter |-> txc,
          tx |-> NoHash]
    ELSE [ok |-> TRUE, error |-> None, balances |-> bal,
          tx_counter |-> txc + 1, tx |-> <<"mint_tx", txc + 1>>]

\* BlockchainSimulator.mint_tokens: the outcome of one call
mint_tokens(bal, txc, fail, chain, user_id, amount) ==
    IF fail
    THEN [ok |-> FALSE, error |-> "Mint failed", balances |-> bal, tx_counter |-> txc,
          tx |-> NoHash]
    ELSE [ok |-> TRUE, error |-> None,
          balances |-> SetBalance(bal, chain, user_id, get_balance(bal, chain, user_id) + amount),
          tx_counter |-> txc + 1, tx |-> <<"mint_tx", txc + 1>>]

\* ============================================================ settlement engine
\* Settlement(...) as initiate_settlement constructs it
Settlement(settlement_id, source_chain, dest_chain, amount, user_id) ==
    [settlement_id |-> settlement_id, source_chain |-> source_chain,
     dest_chain |-> dest_chain, amount |-> amount, user_id |-> user_id,
     status |-> "PENDING", error_message |-> None,
     burn_tx_hash |-> NoHash, mint_tx_hash |-> NoHash]

\* validation that lets a zero amount through
amount_rejected_negative_only(amount) == amount < 0

\* initiate_settlement: if amount <= 0: raise ValueError
amount_rejected(amount) == amount <= 0

\* a status update that drops the write of FAILED
update_status_never_failed(tbl, settlement_id, new_status) ==
    IF settlement_id \notin DOMAIN tbl \/ new_status = "FAILED"
    THEN tbl
    ELSE [tbl EXCEPT ![settlement_id].status = new_status]

\* SettlementEngine._update_settlement_status
update_settlement_status(tbl, settlement_id, new_status) ==
    IF settlement_id \notin DOMAIN tbl
    THEN tbl
    ELSE [tbl EXCEPT ![settlement_id].status = new_status]

NoArgs == [op |-> "none"]
\* the locals of a call; balances_before is history: the ledger's balances when
\* process_settlement was entered
NoLocals ==
    [settlement_id |-> NoId, tx |-> NoHash, error |-> None, result |-> None,
     balances_before |-> EmptyDict]
NoReturn == [op |-> "none"]
Returned(op, a, value) == [op |-> op, args |-> a, raised |-> None, value |-> value]
Raised(op, a, exception) == [op |-> op, args |-> a, raised |-> exception, value |-> None]

Finish(w, r) ==
    /\ pc' = [pc EXCEPT ![w] = "idle"]
    /\ arg' = [arg EXCEPT ![w] = NoArgs]
    /\ loc' = [loc EXCEPT ![w] = NoLocals]
    /\ ret' = [ret EXCEPT ![w] = r]

Goto(w, label) == pc' = [pc EXCEPT ![w] = label]

\* history: the id a key's first successful initiate_settlement returned
FirstIssued(h, idempotency_key, settlement_id) ==
    IF idempotency_key \in DOMAIN h THEN h ELSE DictPut(h, idempotency_key, settlement_id)

\* calls of initiate_settlement that are running and may still allocate an id
Allocating == {w \in Threads : pc[w] \in {"i_get", "i_counter"}}

\* initiate_settlement, lines 174-175: entry and validation
InitiateCall(w, source_chain, dest_chain, amount, user_id, idempotency_key) ==
    LET a == [op |-> "initiate_settlement", source_chain |-> source_chain,
              dest_chain |-> dest_chain, amount |-> amount, user_id |-> user_id,
              idempotency_key |-> idempotency_key] IN
    /\ pc[w] = "idle"
    /\ calls < MaxCalls
    /\ calls' = calls + 1
    /\ \/ get(store, idempotency_key) # NoId
       \/ settlement_counter + Cardinality(Allocating) < MaxSettlements
    /\ IF amount_rejected(amount)
       THEN Finish(w, Raised("initiate_settlement", a, "ValueError"))
       ELSE /\ Goto(w, "i_get")
            /\ arg' = [arg EXCEPT ![w] = a]
            /\ ret' = [ret EXCEPT ![w] = NoReturn]
            /\ UNCHANGED loc
    /\ UNCHANGED <<readerVars, serviceVars, now, poolVars, lockVars, storeVars, engineVars, ledgerVars, issued, created,
                   burns, mints>>

\* initiate_settlement, lines 178-180: the idempotency check
InitiateGet(w) ==
    LET existing_settlement_id == get(store, arg[w].idempotency_key) IN
    /\ pc[w] = "i_get"
    /\ IF existing_settlement_id # NoId
       THEN /\ Finish(w, Returned("initiate_settlement", arg[w], existing_settlement_id))
            /\ issued' = FirstIssued(issued, arg[w].idempotency_key, existing_settlement_id)
       ELSE /\ Goto(w, "i_counter")
            /\ UNCHANGED <<arg, loc, ret, issued>>
    /\ UNCHANGED <<readerVars, serviceVars, now, poolVars, lockVars, storeVars, engineVars, ledgerVars, calls, created,
                   burns, mints>>

\* the id taken from the counter without the increment of line 184
InitiateCounter_no_increment(w) ==
    /\ pc[w] = "i_counter"
    /\ loc' = [loc EXCEPT ![w].settlement_id = settlement_counter + 1]
    /\ Goto(w, "i_store")
    /\ UNCHANGED <<readerVars, serviceVars, now, poolVars, lockVars, storeVars, engineVars, ledgerVars, arg, ret, histVars>>

\* initiate_settlement, lines 183-185: the id, under counter_lock
InitiateCounter(w) ==
    /\ pc[w] = "i_counter"
    /\ settlement_counter' = settlement_counter + 1
    /\ loc' = [loc EXCEPT ![w].settlement_id = settlement_counter + 1]
    /\ Goto(w, "i_store")
    /\ UNCHANGED <<readerVars, serviceVars, now, poolVars, lockVars, storeVars, settlements, ledgerVars, arg, ret, histVars>>

\* the idempotency record written without the settlement having been stored
InitiateStore_skipped(w) ==
    /\ pc[w] = "i_store"
    /\ Goto(w, "i_put")
    /\ UNCHANGED <<readerVars, serviceVars, now, poolVars, lockVars, storeVars, engineVars, ledgerVars,
                   arg, loc, ret, histVars>>

\* initiate_settlement, lines 188-201: the settlement, under settlements_lock
InitiateStore(w) ==
    /\ pc[w] = "i_store"
    /\ settlements' = DictPut(settlements, loc[w].settlement_id,
                              Settlement(loc[w].settlement_id, arg[w].source_chain,
                                         arg[w].dest_chain, arg[w].amount, arg[w].user_id))
    /\ created' = created + 1
    /\ Goto(w, "i_put")
    /\ UNCHANGED <<readerVars, serviceVars, now, poolVars, lockVars, storeVars, settlement_counter, ledgerVars,
                   arg, loc, ret, calls, issued, burns, mints>>

\* initiate_settlement, lines 204-206: the idempotency record, and return
InitiatePut(w) ==
    /\ pc[w] = "i_put"
    /\ store' = put(store, arg[w].idempotency_key, loc[w].settlement_id)
    /\ Finish(w, Returned("initiate_settlement", arg[w], loc[w].settlement_id))
    /\ issued' = FirstIssued(issued, arg[w].idempotency_key, loc[w].settlement_id)
    /\ UNCHANGED <<readerVars, serviceVars, now, poolVars, lockVars, storeCall, engineVars, ledgerVars, calls, created,
                   burns, mints>>

\* process_settlement, lines 217-219: entry and lookup
ProcessEnter(w, settlement_id) ==
    LET a == [op |-> "process_settlement", settlement_id |-> settlement_id] IN
    /\ pc[w] = "idle"
    /\ IF settlement_id \notin DOMAIN settlements
       THEN Finish(w, Raised("process_settlement", a, "ValueError"))
       ELSE /\ Goto(w, "p_acquire")
            /\ arg' = [arg EXCEPT ![w] = a]
            /\ ret' = [ret EXCEPT ![w] = NoReturn]
            /\ loc' = [loc EXCEPT ![w].balances_before = balances]
    /\ UNCHANGED <<readerVars, serviceVars, now, lockVars, storeVars, engineVars, ledgerVars, issued, created,
                   burns, mints>>

\* process_settlement called by a test's thread
ProcessCall(w, settlement_id) ==
    /\ calls < MaxCalls
    /\ calls' = calls + 1
    /\ ProcessEnter(w, settlement_id)
    /\ UNCHANGED poolVars

\* process_settlement with the acquisition inside the try block: a failed
\* acquire runs the finally block's release
ProcessAcquire_releases(w) ==
    LET res == acquire(locks, arg[w].settlement_id, w, ProcessTtl, now) IN
    /\ pc[w] = "p_acquire"
    /\ locks' = res.locks
    /\ IF res.ok
       THEN /\ Goto(w, "p_check")
            /\ UNCHANGED <<arg, loc, ret>>
       ELSE /\ Goto(w, "p_release")
            /\ loc' = [loc EXCEPT ![w].result = "False"]
            /\ UNCHANGED <<arg, ret>>
    /\ UNCHANGED <<readerVars, serviceVars, now, poolVars, lockCall, storeVars, engineVars, ledgerVars, histVars>>

\* process_settlement, lines 222-229: the distributed lock
ProcessAcquire(w) ==
    LET res == acquire(locks, arg[w].settlement_id, w, ProcessTtl, now) IN
    /\ pc[w] = "p_acquire"
    /\ locks' = res.locks
    /\ IF res.ok
       THEN /\ Goto(w, "p_check")
            /\ UNCHANGED <<arg, loc, ret>>
       ELSE Finish(w, Returned("process_settlement", arg[w], FALSE))
    /\ UNCHANGED <<readerVars, serviceVars, now, poolVars, lockCall, storeVars, engineVars, ledgerVars, histVars>>

\* process_settlement without the status check of lines 234-235
ProcessCheck_unchecked(w) ==
    /\ pc[w] = "p_check"
    /\ Goto(w, "p_processing")
    /\ UNCHANGED <<readerVars, serviceVars, now, poolVars, lockVars, storeVars, engineVars, ledgerVars, arg, loc, ret, histVars>>

\* process_settlement, lines 234-235: the status check
ProcessCheck(w) ==
    /\ pc[w] = "p_check"
    /\ IF settlements[arg[w].settlement_id].status # "PENDING"
       THEN /\ Goto(w, "p_release")
            /\ loc' = [loc EXCEPT ![w].result = "False"]
       ELSE /\ Goto(w, "p_processing")
            /\ UNCHANGED loc
    /\ UNCHANGED <<readerVars, serviceVars, now, poolVars, lockVars, storeVars, engineVars, ledgerVars, arg, ret, histVars>>

\* a step of process_settlement or _execute_settlement that is one call of
\* _update_settlement_status
StatusStep(w, from, new_status, to) ==
    /\ pc[w] = from
    /\ settlements' = update_settlement_status(settlements, arg[w].settlement_id, new_status)
    /\ Goto(w, to)
    /\ UNCHANGED <<readerVars, serviceVars, now, poolVars, lockVars, storeVars, settlement_counter, ledgerVars, arg, ret, histVars>>

\* process_settlement, line 239
ProcessSetProcessing(w) ==
    StatusStep(w, "p_processing", "PROCESSING", "e_burning") /\ UNCHANGED loc

\* _execute_settlement, line 264
ExecSetBurning(w) ==
    StatusStep(w, "e_burning", "BURNING", "e_burn") /\ UNCHANGED loc

\* _execute_settlement, lines 266-270: the burn on the source chain;
\* should_fail_burn is what the harness has set blockchain.should_fail_burn to
ExecBurn(w, should_fail_burn) ==
    LET s == settlements[arg[w].settlement_id]
        res == burn_tokens(balances, tx_counter, should_fail_burn,
                           s.source_chain, s.user_id, s.amount) IN
    /\ pc[w] = "e_burn"
    /\ balances' = res.balances
    /\ tx_counter' = res.tx_counter
    /\ IF res.ok
       THEN /\ Goto(w, "e_burn_hash")
            /\ loc' = [loc EXCEPT ![w].tx = res.tx]
            /\ burns' = [burns EXCEPT ![arg[w].settlement_id] = @ + 1]
       ELSE /\ Goto(w, "e_error")
            /\ loc' = [loc EXCEPT ![w].error = res.error]
            /\ UNCHANGED burns
    /\ UNCHANGED <<readerVars, serviceVars, now, poolVars, lockVars, storeVars, engineVars, arg, ret, calls, issued, created,
                   mints>>

\* _execute_settlement without line 270: the burn's hash is not recorded
ExecStoreBurnHash_skipped(w) ==
    /\ pc[w] = "e_burn_hash"
    /\ Goto(w, "e_burned")
    /\ UNCHANGED <<readerVars, serviceVars, now, poolVars, lockVars, storeVars, engineVars, ledgerVars,
                   arg, loc, ret, histVars>>

\* _execute_settlement, line 271
ExecStoreBurnHash(w) ==
    /\ pc[w] = "e_burn_hash"
    /\ settlements' = [settlements EXCEPT ![arg[w].settlement_id].burn_tx_hash = loc[w].tx]
    /\ Goto(w, "e_burned")
    /\ UNCHANGED <<readerVars, serviceVars, now, poolVars, lockVars, storeVars, settlement_counter, ledgerVars,
                   arg, loc, ret, histVars>>

\* _execute_settlement, line 273
ExecSetBurned(w) ==
    StatusStep(w, "e_burned", "BURNED", "e_minting") /\ UNCHANGED loc

\* _execute_settlement, line 276
ExecSetMinting(w) ==
    StatusStep(w, "e_minting", "MINTING", "e_mint") /\ UNCHANGED loc

\* _execute_settlement, lines 278-282: the mint on the destination chain;
\* should_fail_mint is what the harness has set blockchain.should_fail_mint to
ExecMint(w, should_fail_mint) ==
    LET s == settlements[arg[w].settlement_id]
        res == mint_tokens(balances, tx_counter, should_fail_mint,
                           s.dest_chain, s.user_id, s.amount) IN
    /\ pc[w] = "e_mint"
    /\ balances' = res.balances
    /\ tx_counter' = res.tx_counter
    /\ IF res.ok
       THEN /\ Goto(w, "e_mint_hash")
            /\ loc' = [loc EXCEPT ![w].tx = res.tx]
            /\ mints' = [mints EXCEPT ![arg[w].settlement_id] = @ + 1]
       ELSE /\ Goto(w, "e_error")
            /\ loc' = [loc EXCEPT ![w].error = res.error]
            /\ UNCHANGED mints
    /\ UNCHANGED <<readerVars, serviceVars, now, poolVars, lockVars, storeVars, engineVars, arg, ret, calls, issued, created,
                   burns>>

\* _execute_settlement, line 283
ExecStoreMintHash(w) ==
    /\ pc[w] = "e_mint_hash"
    /\ settlements' = [settlements EXCEPT ![arg[w].settlement_id].mint_tx_hash = loc[w].tx]
    /\ Goto(w, "e_minted")
    /\ UNCHANGED <<readerVars, serviceVars, now, poolVars, lockVars, storeVars, settlement_counter, ledgerVars,
                   arg, loc, ret, histVars>>

\* _execute_settlement, line 285
ExecSetMinted(w) ==
    StatusStep(w, "e_minted", "MINTED", "e_completed") /\ UNCHANGED loc

\* _execute_settlement, line 288, and process_settlement, line 244
ExecSetCompleted(w) ==
    /\ StatusStep(w, "e_completed", "COMPLETED", "p_release")
    /\ loc' = [loc EXCEPT ![w].result = "True"]

\* _execute_settlement, line 293
ExecStoreError(w) ==
    /\ pc[w] = "e_error"
    /\ settlements' = [settlements EXCEPT ![arg[w].settlement_id].error_message = loc[w].error]
    /\ Goto(w, "e_failed")
    /\ UNCHANGED <<readerVars, serviceVars, now, poolVars, lockVars, storeVars, settlement_counter, ledgerVars,
                   arg, loc, ret, histVars>>

\* _execute_settlement, lines 294-295
ExecSetFailed(w) ==
    /\ StatusStep(w, "e_failed", "FAILED", "p_release")
    /\ loc' = [loc EXCEPT ![w].result = "raise"]

\* process_settlement, lines 246-251: the finally block, then the return or re-raise
ProcessRelease(w) ==
    LET res == release(locks, arg[w].settlement_id, w, now) IN
    /\ pc[w] = "p_release"
    /\ locks' = res.locks
    /\ Finish(w, IF loc[w].result = "raise"
                 THEN Raised("process_settlement", arg[w], "Exception")
                 ELSE Returned("process_settlement", arg[w], loc[w].result = "True"))
    /\ UNCHANGED <<readerVars, serviceVars, now, poolVars, lockCall, storeVars, engineVars, ledgerVars, histVars>>

\* retry_settlement with the lookup of process_settlement (self.settlements[id]
\* raising) in place of lines 315-317
RetryCall_lookup_raises(w, settlement_id) ==
    LET a == [op |-> "retry_settlement", settlement_id |-> settlement_id] IN
    /\ pc[w] = "idle"
    /\ calls < MaxCalls
    /\ calls' = calls + 1
    /\ IF settlement_id \notin DOMAIN settlements
       THEN Finish(w, Raised("retry_settlement", a, "KeyError"))
       ELSE Finish(w, Raised("retry_settlement", a, "NotImplementedError"))
    /\ UNCHANGED <<readerVars, serviceVars, now, poolVars, lockVars, storeVars, engineVars, ledgerVars, issued, created,
                   burns, mints>>

\* retry_settlement, lines 315-326: the lookup, then the unimplemented body;
\* one step, since nothing is read or written after the lookup
RetryCall(w, settlement_id) ==
    LET a == [op |-> "retry_settlement", settlement_id |-> settlement_id] IN
    /\ pc[w] = "idle"
    /\ calls < MaxCalls
    /\ calls' = calls + 1
    /\ IF settlement_id \notin DOMAIN settlements
       THEN Finish(w, Returned("retry_settlement", a, FALSE))
       ELSE Finish(w, Raised("retry_settlement", a, "NotImplementedError"))
    /\ UNCHANGED <<readerVars, serviceVars, now, poolVars, lockVars, storeVars, engineVars, ledgerVars, issued, created,
                   burns, mints>>

\* _compensate_settlement, lines 340-346: the lookup, then the unimplemented body
CompensateCall(w, settlement_id) ==
    LET a == [op |-> "_compensate_settlement", settlement_id |-> settlement_id] IN
    /\ pc[w] = "idle"
    /\ calls < MaxCalls
    /\ calls' = calls + 1
    /\ IF settlement_id \notin DOMAIN settlements
       THEN Finish(w, Raised("_compensate_settlement", a, "KeyError"))
       ELSE Finish(w, Raised("_compensate_settlement", a, "NotImplementedError"))
    /\ UNCHANGED <<readerVars, serviceVars, now, poolVars, lockVars, storeVars, engineVars, ledgerVars, issued, created,
                   burns, mints>>

\* the steps of thread w
InitiateSteps(w) ==
    \/ \E sc \in SourceChains, dc \in DestChains, a \in Amounts, u \in Users, k \in Keys :
           InitiateCall(w, sc, dc, a, u, k)
    \/ InitiateGet(w)
    \/ InitiateCounter(w)
    \/ InitiateStore(w)
    \/ InitiatePut(w)

\* the steps of process_settlement after its entry; Faults is what the harness
\* may set should_fail_burn and should_fail_mint to
ExecutionSteps(w, Faults) ==
    \/ ProcessAcquire(w)
    \/ ProcessCheck(w)
    \/ ProcessSetProcessing(w)
    \/ ExecSetBurning(w)
    \/ \E fail \in Faults : ExecBurn(w, fail)
    \/ ExecStoreBurnHash(w)
    \/ ExecSetBurned(w)
    \/ ExecSetMinting(w)
    \/ \E fail \in Faults : ExecMint(w, fail)
    \/ ExecStoreMintHash(w)
    \/ ExecSetMinted(w)
    \/ ExecSetCompleted(w)
    \/ ExecStoreError(w)
    \/ ExecSetFailed(w)
    \/ ProcessRelease(w)

ProcessSteps(w) ==
    \/ \E sid \in SettlementIds : ProcessCall(w, sid)
    \/ ExecutionSteps(w, BOOLEAN)

\* the ids of S as a list in the order of the settlements dict: insertion order,
\* which is the order of the ids when one thread initiates
RECURSIVE InDictOrder(_)
InDictOrder(S) ==
    IF S = {} THEN <<>>
    ELSE LET first == CHOOSE x \in S : \A y \in S : x <= y IN
         <<first>> \o InDictOrder(S \ {first})

\* get_all_settlements, lines 372-375: under settlements_lock, a new list of the
\* dict's values, which are the live Settlement objects themselves
GetAllSettlements(r) ==
    /\ pc[r] = "idle"
    /\ snapshot' = InDictOrder(DOMAIN settlements)
    /\ snapshot_seen' = settlements
    /\ Finish(r, Returned("get_all_settlements", [op |-> "get_all_settlements"],
                          InDictOrder(DOMAIN settlements)))
    /\ UNCHANGED <<serviceVars, now, poolVars, lockVars, storeVars, engineVars, ledgerVars,
                   histVars>>

\* what a reader of the returned list finds in its i-th element at this instant
SnapshotElement(i) == settlements[snapshot[i]]

\* the thread names WorkerPool.start gives: Worker-0 .. Worker-(num_workers - 1)
WorkerIndex == [w \in Workers |-> IF w = "Worker-0" THEN 0 ELSE 1]

\* WorkerPool.start, called by the main thread
PoolStart(num_workers) ==
    /\ pc[MainThread] = "idle"
    /\ workers = {}
    /\ running' = TRUE
    /\ workers' = {w \in Workers : WorkerIndex[w] < num_workers}
    /\ UNCHANGED <<readerVars, serviceVars, now, lockVars, storeVars, engineVars, ledgerVars, threadVars, histVars,
                   pending>>

\* WorkerPool.stop, called by the main thread
PoolStop ==
    /\ pc[MainThread] = "idle"
    /\ running
    /\ running' = FALSE
    /\ UNCHANGED <<readerVars, serviceVars, now, lockVars, storeVars, engineVars, ledgerVars, threadVars, histVars,
                   workers, pending>>

\* a worker loop whose `while` does not look at self.running
WorkerLoopTest_ignores_running(w) ==
    /\ w \in workers
    /\ pc[w] = "idle"
    /\ pending[w] = <<>>
    /\ Goto(w, "w_scan")
    /\ UNCHANGED <<readerVars, serviceVars, now, poolVars, lockVars, storeVars, engineVars, ledgerVars,
                   arg, loc, ret, histVars>>

\* _worker_loop, line 411, at the start and after the sleep of line 424: the loop
\* test `while self.running`, which reads the flag without a lock
WorkerLoopTest(w) ==
    /\ w \in workers
    /\ pc[w] = "idle"
    /\ pending[w] = <<>>
    /\ Goto(w, IF running THEN "w_scan" ELSE "w_exit")
    /\ UNCHANGED <<readerVars, serviceVars, now, poolVars, lockVars, storeVars, engineVars, ledgerVars,
                   arg, loc, ret, histVars>>

\* _worker_loop, lines 413-416: the snapshot of the PENDING settlements, taken
\* under settlements_lock; what the calls of the last round returned or raised has
\* been dropped by then
WorkerSnapshot(w) ==
    /\ pc[w] = "w_scan"
    /\ pending' = [pending EXCEPT ![w] =
                       InDictOrder({sid \in DOMAIN settlements :
                                       settlements[sid].status = "PENDING"})]
    /\ Goto(w, "idle")
    /\ ret' = [ret EXCEPT ![w] = NoReturn]
    /\ UNCHANGED <<readerVars, serviceVars, now, lockVars, storeVars, engineVars, ledgerVars, arg, loc, histVars,
                   running, workers>>

\* a worker loop without the try/except of lines 419-422: what process_settlement
\* raises ends the loop
WorkerProcess_uncaught(w) ==
    /\ w \in workers
    /\ pending[w] # <<>>
    /\ ret[w].op = "process_settlement" => ret[w].raised = None
    /\ ProcessEnter(w, Head(pending[w]))
    /\ pending' = [pending EXCEPT ![w] = Tail(pending[w])]
    /\ UNCHANGED <<calls, running, workers>>

\* _worker_loop, lines 418-422: the call for the next settlement of the list; what
\* it raises is printed and the loop goes on
WorkerProcess(w) ==
    /\ w \in workers
    /\ pending[w] # <<>>
    /\ ProcessEnter(w, Head(pending[w]))
    /\ pending' = [pending EXCEPT ![w] = Tail(pending[w])]
    /\ UNCHANGED <<calls, running, workers>>

\* the main thread of the concurrency and worker pool tests: initiate_settlement
\* with a positive amount and a key of its own for each settlement, before any
\* pool is started
SetupSteps(w) ==
    /\ workers = {}
    /\ \/ \E sc \in SourceChains, dc \in DestChains, u \in Users,
              a \in {x \in Amounts : x > 0}, k \in Keys \ DOMAIN store :
               InitiateCall(w, sc, dc, a, u, k)
       \/ InitiateGet(w)
       \/ InitiateCounter(w)
       \/ InitiateStore(w)
       \/ InitiatePut(w)

\* the main thread of test_distributed_lock_prevents_double_processing:
\* initiate_settlement once, with a positive amount
ContendSetupSteps(w) ==
    \/ /\ DOMAIN store = {}
       /\ \E sc \in SourceChains, dc \in DestChains, u \in Users,
              a \in {x \in Amounts : x > 0}, k \in Keys :
               InitiateCall(w, sc, dc, a, u, k)
    \/ InitiateGet(w)
    \/ InitiateCounter(w)
    \/ InitiateStore(w)
    \/ InitiatePut(w)

\* the steps of pool worker w, on a ledger without injected faults
WorkerSteps(w) ==
    \/ WorkerLoopTest(w)
    \/ WorkerSnapshot(w)
    \/ WorkerProcess(w)
    \/ ExecutionSteps(w, {FALSE})

\* the concurrency test's threads: thread i processes the i-th settlement
OwnSettlement == [w \in Workers |-> WorkerIndex[w] + 1]

\* a worker thread dies inside the try block of process_settlement (a daemon
\* thread at interpreter exit, a killed service instance): its finally block does
\* not run, and the thread takes no further step
Crash(w) ==
    /\ pc[w] \notin {"idle", "dead", "p_acquire"}
    /\ arg[w].op = "process_settlement"
    /\ pc' = [pc EXCEPT ![w] = "dead"]
    /\ arg' = [arg EXCEPT ![w] = NoArgs]
    /\ loc' = [loc EXCEPT ![w] = NoLocals]
    /\ UNCHANGED <<readerVars, serviceVars, now, poolVars, lockVars, storeVars, engineVars, ledgerVars, ret, histVars>>

\* a restart of the service, as the persistence test simulates it: a new
\* IdempotencyStore on the same file and a new SettlementEngine, which takes over
\* the settlements table; the blockchain and the lock manager stay
Restart ==
    /\ \A w \in Threads : pc[w] = "idle"
    /\ store' = load_from_disk
    /\ settlement_counter' = 0
    /\ UNCHANGED <<readerVars, serviceVars, now, poolVars, lockVars, storeCall, settlements, ledgerVars, threadVars, histVars>>

\* ===================================================== mint service: transfer
\* the accounts the test creates (test_mint_service.py, lines 180-181)
Accounts == {"account1", "account2"}
TransferAmounts == {0, 1}

\* _transfer_between_accounts, lines 148-154: validation, and the two Lock objects
TransferCall(t, from_account, to_account, amount) ==
    LET a == [op |-> "_transfer_between_accounts", from_account |-> from_account,
              to_account |-> to_account, amount |-> amount] IN
    /\ pc[t] = "idle"
    /\ IF amount <= 0
       THEN Finish(t, Raised("_transfer_between_accounts", a, "ValueError"))
       ELSE /\ Goto(t, "t_from_lock")
            /\ arg' = [arg EXCEPT ![t] = a]
            /\ ret' = [ret EXCEPT ![t] = NoReturn]
            /\ UNCHANGED loc
    /\ UNCHANGED <<settlementVars, serviceVars>>

\* line 156, `with from_lock:` a threading.Lock is taken when no thread holds it,
\* its holder included
TransferLockFrom(t) ==
    /\ pc[t] = "t_from_lock"
    /\ account_locks[arg[t].from_account] = None
    /\ account_locks' = [account_locks EXCEPT ![arg[t].from_account] = t]
    /\ Goto(t, "t_check")
    /\ UNCHANGED <<settlementVars, account_balances, payVars, arg, loc, ret>>

\* lines 158-160: the balance check; return False leaves the with block
TransferCheck(t) ==
    /\ pc[t] = "t_check"
    /\ IF account_balances[arg[t].from_account] < arg[t].amount
       THEN /\ account_locks' = [account_locks EXCEPT ![arg[t].from_account] = None]
            /\ Finish(t, Returned("_transfer_between_accounts", arg[t], FALSE))
       ELSE /\ Goto(t, "t_to_lock")
            /\ UNCHANGED <<account_locks, arg, loc, ret>>
    /\ UNCHANGED <<settlementVars, account_balances, payVars>>

\* line 164, `with to_lock:` while from_lock is held
TransferLockTo(t) ==
    /\ pc[t] = "t_to_lock"
    /\ account_locks[arg[t].to_account] = None
    /\ account_locks' = [account_locks EXCEPT ![arg[t].to_account] = t]
    /\ Goto(t, "t_debit")
    /\ UNCHANGED <<settlementVars, account_balances, payVars, arg, loc, ret>>

\* line 166: add_to_balance(from_account, -amount)
TransferDebit(t) ==
    /\ pc[t] = "t_debit"
    /\ account_balances' = [account_balances EXCEPT ![arg[t].from_account] = @ - arg[t].amount]
    /\ Goto(t, "t_credit")
    /\ UNCHANGED <<settlementVars, account_locks, payVars, arg, loc, ret>>

\* lines 167-168: add_to_balance(to_account, amount), return True; both with
\* blocks are left
TransferCredit(t) ==
    /\ pc[t] = "t_credit"
    /\ account_balances' = [account_balances EXCEPT ![arg[t].to_account] = @ + arg[t].amount]
    /\ account_locks' = [a \in Accounts |->
                            IF a \in {arg[t].from_account, arg[t].to_account}
                            THEN None ELSE account_locks[a]]
    /\ Finish(t, Returned("_transfer_between_accounts", arg[t], TRUE))
    /\ UNCHANGED <<settlementVars, payVars>>

TransferSteps(t) ==
    \/ \E from_account \in Accounts, to_account \in Accounts, amount \in TransferAmounts :
           TransferCall(t, from_account, to_account, amount)
    \/ TransferLockFrom(t)
    \/ TransferCheck(t)
    \/ TransferLockTo(t)
    \/ TransferDebit(t)
    \/ TransferCredit(t)

\* ========================================================== payment processor
PayUsers == Users \cup {"nobody"}
PayAmounts == {0, 1, 2}

\* PaymentResult, without its message and timestamp; transaction_id is
\* f"txn_{n:06d}", kept as the pair of the prefix and n, or the empty string
NoTransaction == <<>>
PaymentResult(success, transaction_id, amount) ==
    [success |-> success, transaction_id |-> transaction_id, amount |-> amount]

LogEntry(a, result) ==
    [user_id |-> a.user_id, amount |-> a.amount, idempotency_key |-> a.idempotency_key,
     result |-> result]

\* process_payment, lines 76-77: validation
PayCall(t, user_id, amount, idempotency_key) ==
    LET a == [op |-> "process_payment", user_id |-> user_id, amount |-> amount,
              idempotency_key |-> idempotency_key] IN
    /\ pc[t] = "idle"
    /\ calls < MaxCalls
    /\ calls' = calls + 1
    /\ IF amount <= 0
       THEN Finish(t, Raised("process_payment", a, "ValueError"))
       ELSE /\ Goto(t, "pay_key")
            /\ arg' = [arg EXCEPT ![t] = a]
            /\ ret' = [ret EXCEPT ![t] = NoReturn]
            /\ UNCHANGED loc
    /\ UNCHANGED <<readerVars, serviceVars, now, poolVars, lockVars, storeVars, engineVars, ledgerVars,
                   issued, created, burns, mints>>

\* lines 80-81: the idempotency check, without any lock
PayCheckKey(t) ==
    /\ pc[t] = "pay_key"
    /\ IF arg[t].idempotency_key \in DOMAIN processed_payments
       THEN LET result == processed_payments[arg[t].idempotency_key] IN
            /\ pay_log' = Append(pay_log, LogEntry(arg[t], result))
            /\ Finish(t, Returned("process_payment", arg[t], result))
       ELSE /\ Goto(t, "pay_user")
            /\ UNCHANGED <<pay_log, arg, loc, ret>>
    /\ UNCHANGED <<settlementVars, mintVars, payment_balances, processed_payments,
                   transaction_counter>>

\* lines 84-98: the account check, the read of the balance and the balance check
PayReadBalance(t) ==
    /\ pc[t] = "pay_user"
    /\ IF arg[t].user_id \notin DOMAIN payment_balances
       THEN /\ Finish(t, Raised("process_payment", arg[t], "ValueError"))
            /\ UNCHANGED pay_log
       ELSE LET current_balance == payment_balances[arg[t].user_id] IN
            IF current_balance < arg[t].amount
            THEN LET result == PaymentResult(FALSE, NoTransaction, arg[t].amount) IN
                 /\ pay_log' = Append(pay_log, LogEntry(arg[t], result))
                 /\ Finish(t, Returned("process_payment", arg[t], result))
            ELSE /\ Goto(t, "pay_deduct")
                 /\ loc' = [loc EXCEPT ![t] = [current_balance |-> current_balance]]
                 /\ UNCHANGED <<pay_log, arg, ret>>
    /\ UNCHANGED <<settlementVars, mintVars, payment_balances, processed_payments,
                   transaction_counter>>

\* line 101: the deduction, from the balance read at line 89
PayDeduct(t) ==
    /\ pc[t] = "pay_deduct"
    /\ payment_balances' = [payment_balances EXCEPT
                               ![arg[t].user_id] = loc[t].current_balance - arg[t].amount]
    /\ Goto(t, "pay_counter")
    /\ UNCHANGED <<settlementVars, mintVars, processed_payments, transaction_counter, pay_log,
                   arg, loc, ret>>

\* lines 104-106: the transaction id, under self.lock
PayCounter(t) ==
    /\ pc[t] = "pay_counter"
    /\ transaction_counter' = transaction_counter + 1
    /\ loc' = [loc EXCEPT ![t] = [current_balance |-> loc[t].current_balance,
                                  transaction_id |-> <<"txn", transaction_counter + 1>>]]
    /\ Goto(t, "pay_record")
    /\ UNCHANGED <<settlementVars, mintVars, payment_balances, processed_payments, pay_log,
                   arg, ret>>

\* lines 109-121: the result, its record under the idempotency key, and the return
PayRecord(t) ==
    LET result == PaymentResult(TRUE, loc[t].transaction_id, arg[t].amount) IN
    /\ pc[t] = "pay_record"
    /\ processed_payments' = DictPut(processed_payments, arg[t].idempotency_key, result)
    /\ pay_log' = Append(pay_log, LogEntry(arg[t], result))
    /\ Finish(t, Returned("process_payment", arg[t], result))
    /\ UNCHANGED <<settlementVars, mintVars, payment_balances, transaction_counter>>

PaySteps(t) ==
    \/ \E user_id \in PayUsers, amount \in PayAmounts, idempotency_key \in Keys :
           PayCall(t, user_id, amount, idempotency_key)
    \/ PayCheckKey(t)
    \/ PayReadBalance(t)
    \/ PayDeduct(t)
    \/ PayCounter(t)
    \/ PayRecord(t)

\* ================================================================== initial state
Init ==
    /\ now = 0
    /\ locks = {}
    /\ lockCall = NoCall
    /\ store = EmptyStore
    /\ storeCall = NoCall
    /\ settlements = EmptyDict
    /\ settlement_counter = 0
    /\ balances = [c \in Chains |-> [u \in Users |-> IF c = "A" THEN InitBalance ELSE 0]]
    /\ tx_counter = 0
    /\ pc = [w \in Threads |-> "idle"]
    /\ arg = [w \in Threads |-> NoArgs]
    /\ loc = [w \in Threads |-> NoLocals]
    /\ ret = [w \in Threads |-> NoReturn]
    /\ calls = 0
    /\ issued = EmptyDict
    /\ created = 0
    /\ burns = [s \in SettlementIds |-> 0]
    /\ mints = [s \in SettlementIds |-> 0]
    /\ running = FALSE
    /\ workers = {}
    /\ pending = [w \in Workers |-> <<>>]
    /\ account_locks = [a \in Accounts |-> None]
    /\ account_balances = [a \in Accounts |-> InitBalance]
    /\ payment_balances = [u \in Users |-> InitBalance]
    /\ processed_payments = EmptyDict
    /\ transaction_counter = 0
    /\ pay_log = <<>>
    /\ snapshot = <<>>
    /\ snapshot_seen = EmptyDict

\* ============================================================== specifications
NextLock ==
    \/ Tick
    \/ \E k \in LockKeys, h \in Holders, ttl \in Ttls : LockAcquire(k, h, ttl)
    \/ \E k \in LockKeys, h \in Holders : LockRelease(k, h)
    \/ \E k \in LockKeys, h \in Holders, ttl \in Ttls : LockExtend(k, h, ttl)
    \/ \E k \in LockKeys : LockIsLocked(k)
    \/ LockCleanup

SpecLock == Init /\ [][NextLock]_vars

NextStore ==
    \/ \E k \in StoreKeys, sid \in SettlementIds : StorePut(k, sid)
    \/ \E k \in StoreKeys : StoreGet(k)
    \/ \E k \in StoreKeys : StoreDelete(k)
    \/ StoreReopen
    \/ StoreClear

SpecStore == Init /\ [][NextStore]_vars

Next ==
    \/ Tick
    \/ InitiateSteps(MainThread)
    \/ \E w \in Workers : ProcessSteps(w)

Spec == Init /\ [][Next]_vars

NextInitiate ==
    \E c \in Clients : InitiateSteps(c)

SpecInitiate == Init /\ [][NextInitiate]_vars

\* the idempotency key each client calls initiate_settlement with
OwnKey == [c \in Clients |-> IF c = "Client-0" THEN "key1" ELSE "key2"]

\* initiate_settlement called once by each client, with a key of its own
NextOwnKeys ==
    \E c \in Clients :
        \/ /\ ret[c].op = "none"
           /\ \E sc \in SourceChains, dc \in DestChains, a \in Amounts, u \in Users :
                  InitiateCall(c, sc, dc, a, u, OwnKey[c])
        \/ InitiateGet(c)
        \/ InitiateCounter(c)
        \/ InitiateStore(c)
        \/ InitiatePut(c)

SpecOwnKeys == Init /\ [][NextOwnKeys]_vars

NextRestart ==
    \/ Tick
    \/ InitiateSteps(MainThread)
    \/ ProcessSteps(MainThread)
    \/ Restart

SpecRestart == Init /\ [][NextRestart]_vars

\* the engine called by one thread, one call after the other, as the
\* single-threaded tests do
NextSequential ==
    \/ Tick
    \/ InitiateSteps(MainThread)
    \/ ProcessSteps(MainThread)
    \/ \E sid \in SettlementIds : RetryCall(MainThread, sid)
    \/ \E sid \in SettlementIds : CompensateCall(MainThread, sid)

SpecSequential == Init /\ [][NextSequential]_vars

\* the worker pool test: the main thread initiates settlements, then starts the
\* pool and later stops it; the scheduler is fair to every worker thread
NextPool ==
    \/ Tick
    \/ SetupSteps(MainThread)
    \/ \E num_workers \in 1..Cardinality(Workers) : PoolStart(num_workers)
    \/ PoolStop
    \/ \E w \in Workers : WorkerSteps(w)

SpecPool == Init /\ [][NextPool]_vars /\ \A w \in Workers : WF_vars(WorkerSteps(w))

\* the steps of pool worker w, on a ledger with injected faults
FaultyWorkerSteps(w) ==
    \/ WorkerLoopTest(w)
    \/ WorkerSnapshot(w)
    \/ WorkerProcess(w)
    \/ ExecutionSteps(w, BOOLEAN)

\* the worker pool on a ledger that may fail, under a fair scheduler; the calls
\* are short of the lock's TTL
NextPoolFaults ==
    \/ SetupSteps(MainThread)
    \/ \E num_workers \in 1..Cardinality(Workers) : PoolStart(num_workers)
    \/ PoolStop
    \/ \E w \in Workers : FaultyWorkerSteps(w)

SpecPoolFaults ==
    Init /\ [][NextPoolFaults]_vars /\ \A w \in Workers : WF_vars(FaultyWorkerSteps(w))

\* one worker processes and may die while processing, another worker retries
NextCrash ==
    \/ Tick
    \/ InitiateSteps(MainThread)
    \/ ProcessSteps("Worker-0")
    \/ Crash("Worker-0")
    \/ \E sid \in SettlementIds : RetryCall("Worker-1", sid)

SpecCrash == Init /\ [][NextCrash]_vars

\* settlements initiated by the main thread, each processed by a thread of its own;
\* no lock key has two holders, so the passing of time decides nothing here
NextParallel ==
    \/ SetupSteps(MainThread)
    \/ \E w \in Workers : ProcessCall(w, OwnSettlement[w]) \/ ExecutionSteps(w, BOOLEAN)

SpecParallel == Init /\ [][NextParallel]_vars

\* one settlement initiated by the main thread and processed by several threads
\* at once, while time passes
NextContend ==
    \/ Tick
    \/ ContendSetupSteps(MainThread)
    \/ \E w \in Workers, sid \in SettlementIds : ProcessCall(w, sid)
    \/ \E w \in Workers : ExecutionSteps(w, BOOLEAN)

SpecContend == Init /\ [][NextContend]_vars

\* one settlement processed by the threads of Workers while the main thread reads
\* the settlements
NextReader ==
    \/ ContendSetupSteps(MainThread)
    \/ GetAllSettlements(MainThread)
    \/ \E w \in Workers, sid \in SettlementIds : ProcessCall(w, sid)
    \/ \E w \in Workers : ExecutionSteps(w, BOOLEAN)

SpecReader == Init /\ [][NextReader]_vars

\* _transfer_between_accounts called by two threads
NextTransfer == \E t \in Workers : TransferSteps(t)

SpecTransfer == Init /\ [][NextTransfer]_vars

\* process_payment called by two threads
NextPayment == \E t \in Workers : PaySteps(t)

SpecPayment == Init /\ [][NextPayment]_vars

\* ======================================================================= claims
\* the data model's expiry: a record is expired at time t when acquiredAt + ttl < t
Live(r, t) == t <= r.acquired_at + r.ttl_seconds

\* holder h has a record for key k in table tbl that is not expired at time t
HeldBy(tbl, k, h, t) == \E r \in LocksAt(tbl, k) : r.holder_id = h /\ Live(r, t)

\* another holder than h has a record for key k in tbl that is not expired at time t
HeldByOther(tbl, k, h, t) == \E r \in LocksAt(tbl, k) : r.holder_id # h /\ Live(r, t)

\* threads that have seen status PENDING at line 234 and are about to write PROCESSING
PassedCheck(sid) ==
    {w \in Threads : pc[w] = "p_processing" /\ arg[w].settlement_id = sid}

\* C1: concurrent process_settlement calls on one settlement never both observe
\* PENDING and transition it, and the ledger sees at most one burn and one mint for
\* the settlement.
C1_NoDoubleProcessing ==
    \A sid \in SettlementIds :
        /\ Cardinality(PassedCheck(sid)) <= 1
        /\ burns[sid] <= 1
        /\ mints[sid] <= 1

\* the idempotency keys that initiate_settlement has been called with so far
KeysUsed ==
    DOMAIN store \cup DOMAIN issued
        \cup {arg[c].idempotency_key : c \in {t \in Threads : pc[t] \in {"i_get", "i_counter", "i_store", "i_put"}}}

InitiateReturned(c) ==
    ret[c].op = "initiate_settlement" /\ ret[c].raised = None

\* C2: callers of initiate_settlement with one idempotency key all receive the same
\* settlement id, and one settlement is created per key.
C2_OneSettlementPerKey ==
    /\ \A c1, c2 \in Threads :
           (/\ InitiateReturned(c1)
            /\ InitiateReturned(c2)
            /\ ret[c1].args.idempotency_key = ret[c2].args.idempotency_key)
           => ret[c1].value = ret[c2].value
    /\ created <= Cardinality(KeysUsed)

\* C3: each key has at most one non-expired lock record, and acquire by h2 returns
\* false and leaves the table unchanged when another holder's non-expired record
\* exists for the key.
C3_AcquireContention ==
    /\ \A r1, r2 \in locks :
           (r1.lock_key = r2.lock_key /\ Live(r1, now) /\ Live(r2, now)) => r1 = r2
    /\ (/\ lockCall.op = "acquire"
        /\ HeldByOther(lockCall.before, lockCall.lock_key, lockCall.holder_id, lockCall.at))
       => (lockCall.result = FALSE /\ locks = lockCall.before)

C3_Witness ==
    /\ lockCall.op = "acquire"
    /\ HeldByOther(lockCall.before, lockCall.lock_key, lockCall.holder_id, lockCall.at)
    /\ lockCall.result = FALSE

\* C4: release by the holder of a non-expired record returns true and removes the
\* record, so that another holder's acquire made right after it succeeds.
C4_ReleaseByHolder ==
    (/\ lockCall.op = "release"
     /\ HeldBy(lockCall.before, lockCall.lock_key, lockCall.holder_id, lockCall.at))
    => /\ lockCall.result = TRUE
       /\ LocksAt(locks, lockCall.lock_key) = {}
       /\ \A h2 \in Holders, ttl \in Ttls :
              acquire(locks, lockCall.lock_key, h2, ttl, lockCall.at).ok

\* C5: release returns false and leaves the table unchanged when the caller holds
\* no non-expired record for the key (no record, another holder's, or expired).
C5_ReleaseByNonHolder ==
    (/\ lockCall.op = "release"
     /\ ~HeldBy(lockCall.before, lockCall.lock_key, lockCall.holder_id, lockCall.at))
    => (lockCall.result = FALSE /\ locks = lockCall.before)

\* C6: against a record of holder h1 acquired at a with TTL t, acquire by another
\* holder h2 fails at every time up to a + t and succeeds at every later time, and
\* when it succeeds h2's record replaces h1's in the same step.
C6_TtlExpiry ==
    lockCall.op = "acquire" =>
        \A r \in LocksAt(lockCall.before, lockCall.lock_key) :
            r.holder_id # lockCall.holder_id =>
                IF lockCall.at <= r.acquired_at + r.ttl_seconds
                THEN lockCall.result = FALSE /\ locks = lockCall.before
                ELSE /\ lockCall.result = TRUE
                     /\ locks = (lockCall.before \ {r}) \cup
                                {LockInfo(lockCall.lock_key, lockCall.holder_id,
                                          lockCall.at, lockCall.ttl)}

C6_Witness ==
    /\ lockCall.op = "acquire"
    /\ lockCall.result = TRUE
    /\ \E r \in LocksAt(lockCall.before, lockCall.lock_key) :
           /\ r.holder_id # lockCall.holder_id
           /\ lockCall.at = r.acquired_at + r.ttl_seconds + 1
    /\ \A r \in LocksAt(locks, lockCall.lock_key) : r.holder_id = lockCall.holder_id

\* C7: extend returns true exactly when the caller holds a non-expired record for
\* the key; then the record keeps its holder and gets a later expiry; otherwise the
\* table is unchanged.
C7_Extend ==
    lockCall.op = "extend" =>
        IF HeldBy(lockCall.before, lockCall.lock_key, lockCall.holder_id, lockCall.at)
        THEN /\ lockCall.result = TRUE
             /\ \E r \in LocksAt(locks, lockCall.lock_key),
                   old \in LocksAt(lockCall.before, lockCall.lock_key) :
                    /\ r.holder_id = lockCall.holder_id
                    /\ r.acquired_at + r.ttl_seconds > old.acquired_at + old.ttl_seconds
        ELSE lockCall.result = FALSE /\ locks = lockCall.before

\* C8: put is create-if-absent: a put on a key that is already mapped leaves the
\* key's mapping as it was.
C8_PutFirstWriterWins ==
    (storeCall.op = "put" /\ storeCall.key \in DOMAIN storeCall.before)
    => get(store, storeCall.key) = storeCall.before[storeCall.key]

\* C9: initiate_settlement with a key that has already produced a settlement
\* returns that settlement's id again, also after a restart, and creates no new
\* settlement and causes no further burn or mint.
C9_IdempotencySurvivesRestart ==
    /\ \A c \in Threads :
           (InitiateReturned(c) /\ ret[c].args.idempotency_key \in DOMAIN issued)
           => ret[c].value = issued[ret[c].args.idempotency_key]
    /\ created <= Cardinality(KeysUsed)
    /\ \A sid \in SettlementIds : burns[sid] <= 1 /\ mints[sid] <= 1

\* a step in which a call began and ended at once, raising from its first check
RejectedAtEntry == calls' = calls + 1 /\ pc' = pc

\* C10: initiate_settlement with amount <= 0 raises the validation error and
\* changes neither the settlements, nor the id counter, nor the idempotency store;
\* every settlement has amount > 0.
C10_ValidationRejects ==
    /\ [](/\ \A sid \in DOMAIN settlements : settlements[sid].amount > 0
          /\ \A c \in Threads :
                 ret[c].op = "initiate_settlement" =>
                     (ret[c].raised = "ValueError" <=> ret[c].args.amount <= 0)
          /\ \A c \in Threads :
                 pc[c] \in {"i_get", "i_counter", "i_store", "i_put"} => arg[c].amount > 0)
    /\ [][RejectedAtEntry =>
            UNCHANGED <<settlements, settlement_counter, store, created, issued>>]_vars

C10_Witness ==
    \E c \in Threads :
        /\ ret[c].op = "initiate_settlement"
        /\ ret[c].raised = "ValueError"
        /\ ret[c].args.amount = 0
        /\ settlement_counter > 0

\* threads whose process_settlement has run _execute_settlement to its end and
\* is about to release the lock and return or re-raise
Executed == {w \in Threads : pc[w] = "p_release" /\ loc[w].result # "False"}

\* C11: a single process_settlement call on a PENDING settlement of amount a whose
\* user has at least a on the source chain, with no ledger fault, leaves the
\* settlement COMPLETED with both transaction hashes set, the source balance
\* decreased by exactly a and the destination balance increased by exactly a; the
\* call raises only when a ledger fault was injected or the balance was short.
C11_SingleProcessCompletes ==
    \A w \in Executed :
        LET s == settlements[arg[w].settlement_id]
            before == loc[w].balances_before IN
        IF loc[w].result = "True"
        THEN /\ s.status = "COMPLETED"
             /\ s.burn_tx_hash # NoHash
             /\ s.mint_tx_hash # NoHash
             /\ get_balance(balances, s.source_chain, s.user_id)
                    = get_balance(before, s.source_chain, s.user_id) - s.amount
             /\ get_balance(balances, s.dest_chain, s.user_id)
                    = get_balance(before, s.dest_chain, s.user_id) + s.amount
        ELSE \/ s.error_message \in {"Burn failed", "Mint failed"}
             \/ get_balance(before, s.source_chain, s.user_id) < s.amount

C11_Witness ==
    \E w \in Executed :
        /\ loc[w].result = "True"
        /\ settlements[arg[w].settlement_id].amount = 2
        /\ get_balance(balances, "B", "user1") = 2

\* the ledger errors burn_tokens and mint_tokens raise
LedgerErrors == {"Burn failed", "Insufficient balance", "Mint failed"}

\* thread w is in the except block of _execute_settlement or re-raising from
\* process_settlement
ErrorPath(w) ==
    \/ pc[w] \in {"e_error", "e_failed"}
    \/ pc[w] = "p_release" /\ loc[w].result = "raise"

ProcessRaised(w) ==
    ret[w].op = "process_settlement" /\ ret[w].raised = "Exception"

\* C12: when burn_tokens or mint_tokens fails during process_settlement, the
\* settlement ends FAILED with error_message set to the ledger's error, the call
\* raises to its caller, and from the failure to the raise the call makes no
\* further ledger call.
C12_LedgerFailureFails ==
    /\ [](\A w \in Threads :
            /\ (pc[w] = "p_release" /\ loc[w].result = "raise") =>
                   /\ settlements[arg[w].settlement_id].status = "FAILED"
                   /\ settlements[arg[w].settlement_id].error_message = loc[w].error
                   /\ loc[w].error \in LedgerErrors
            /\ ProcessRaised(w) =>
                   /\ settlements[ret[w].args.settlement_id].status = "FAILED"
                   /\ settlements[ret[w].args.settlement_id].error_message \in LedgerErrors)
    /\ [][\A w \in Threads :
            (ErrorPath(w) /\ pc'[w] # pc[w]) =>
                /\ UNCHANGED <<balances, tx_counter, burns, mints>>
                /\ \/ pc'[w] \in {"e_failed", "p_release"} /\ loc'[w].error = loc[w].error
                   \/ pc'[w] = "idle" /\ ret'[w].raised = "Exception"]_vars

C12_Witness ==
    \E w \in Threads :
        /\ ProcessRaised(w)
        /\ settlements[ret[w].args.settlement_id].error_message = "Mint failed"
        /\ burns[ret[w].args.settlement_id] = 1
        /\ mints[ret[w].args.settlement_id] = 0

\* thread w's last finished call was op on a settlement of the table that failed at
\* its mint, after its burn had succeeded
FinishedOnMintFailure(w, op) ==
    /\ ret[w].op = op
    /\ ret[w].args.settlement_id \in DOMAIN settlements
    /\ settlements[ret[w].args.settlement_id].burn_tx_hash # NoHash
    /\ settlements[ret[w].args.settlement_id].error_message = "Mint failed"

\* C13: retry_settlement on a settlement that is FAILED after a successful burn
\* (its mint failed) returns true and leaves the settlement COMPLETED, with one
\* burn and one mint made for it.
C13_RetryResumes ==
    \A w \in Threads :
        FinishedOnMintFailure(w, "retry_settlement") =>
            /\ ret[w].raised = None
            /\ ret[w].value = TRUE
            /\ settlements[ret[w].args.settlement_id].status = "COMPLETED"
            /\ burns[ret[w].args.settlement_id] = 1
            /\ mints[ret[w].args.settlement_id] = 1

\* the sum of f over the finite set S
RECURSIVE SumOver(_, _)
SumOver(S, f) ==
    IF S = {} THEN 0
    ELSE LET x == CHOOSE y \in S : TRUE IN f[x] + SumOver(S \ {x}, f)

\* what the settlements of S have burned on the source chain and minted on the
\* destination chain so far
BurnedBy(S) == SumOver(S, [x \in S |-> burns[x] * settlements[x].amount])
MintedBy(S) == SumOver(S, [x \in S |-> mints[x] * settlements[x].amount])

\* C14: _compensate_settlement on a settlement that failed after its burn and
\* before any mint mints the amount back on the source chain: the call does not
\* raise, the source balance is what it would be without this settlement, the
\* destination balance is unchanged, and the status is COMPENSATED.
C14_CompensationRestores ==
    \A w \in Threads :
        (/\ FinishedOnMintFailure(w, "_compensate_settlement")
         /\ mints[ret[w].args.settlement_id] = 0)
        => LET others == DOMAIN settlements \ {ret[w].args.settlement_id} IN
           /\ ret[w].raised = None
           /\ settlements[ret[w].args.settlement_id].status = "COMPENSATED"
           /\ get_balance(balances, "A", "user1") = InitBalance - BurnedBy(others)
           /\ get_balance(balances, "B", "user1") = MintedBy(others)

\* C15: once a process_settlement call that acquired the settlement's lock has
\* finished (returned true, returned false because the status was not PENDING, or
\* raised a ledger failure), the calling thread no longer holds the lock. With one
\* caller every acquire is granted, so every call that found its settlement
\* acquired the lock.
C15_LockReleasedOnExit ==
    \A w \in Threads :
        (ret[w].op = "process_settlement" /\ ret[w].raised # "ValueError")
        => ~HeldBy(locks, ret[w].args.settlement_id, w, now)

\* the settlements can all be burned from the initial source balance
SufficientBalance ==
    SumOver(DOMAIN settlements,
            [x \in DOMAIN settlements |-> settlements[x].amount]) <= InitBalance

\* threads inside a process_settlement call on settlement sid
Processing(sid) == {w \in Threads : pc[w] # "idle" /\ arg[w].op = "process_settlement"
                                    /\ arg[w].settlement_id = sid}

\* C16: with a running worker pool, no ledger fault and sufficient balance, every
\* settlement is burned once and minted once whatever the number of workers: no
\* settlement is burned or minted twice, none fails, and one that is COMPLETED with
\* no worker left on it has exactly one burn and one mint. (The claim's liveness
\* part, PENDING leads to COMPLETED, is not needed to refute it.)
C16_PoolExactlyOnce ==
    SufficientBalance =>
        \A sid \in DOMAIN settlements :
            /\ burns[sid] <= 1
            /\ mints[sid] <= 1
            /\ settlements[sid].status # "FAILED"
            /\ (settlements[sid].status = "COMPLETED" /\ Processing(sid) = {})
                   => (burns[sid] = 1 /\ mints[sid] = 1)

\* settlement sid is in a non-terminal status and no thread is working on it
Stuck(sid) ==
    /\ sid \in DOMAIN settlements
    /\ settlements[sid].status \in {"PROCESSING", "BURNING", "BURNED", "MINTING"}
    /\ Processing(sid) = {}

\* the step leaves what thread v's last call returned or raised as it was
SameResult(v) ==
    /\ ret'[v].op = ret[v].op
    /\ \/ ret[v].op = "none"
       \/ /\ ret'[v].raised = ret[v].raised
          /\ ret'[v].args = ret[v].args
          /\ ret'[v].value = ret[v].value

\* a step that is thread w's whole call retry_settlement(sid): a call began and
\* ended at once, and its result is w's
RetryStep(w, sid) ==
    /\ pc[w] = "idle"
    /\ calls' = calls + 1
    /\ pc' = pc
    /\ ret'[w].op = "retry_settlement"
    /\ ret'[w].args.settlement_id = sid
    /\ \A v \in Threads \ {w} : SameResult(v)

\* C17: when a worker has died while processing a settlement, leaving it in a
\* non-terminal status, and the dead worker's lock has expired, another worker's
\* retry_settlement takes the settlement up: the call does not raise and returns
\* true.
C17_CrashRecovery ==
    [][\A w \in Threads, sid \in SettlementIds :
          (RetryStep(w, sid) /\ Stuck(sid) /\ ~HeldByOther(locks, sid, w, now))
          => (ret'[w].raised = None /\ ret'[w].value = TRUE)]_vars

ProcessReturnedTrue(w) ==
    ret[w].op = "process_settlement" /\ ret[w].raised = None /\ ret[w].value = TRUE

\* C18: locks of other settlement ids do not exclude: a process_settlement call
\* about to acquire is granted the lock unless another holder has a live record for
\* its own settlement id; and when two threads have each processed a settlement of
\* their own, both settlements are COMPLETED, each burned and minted once, and the
\* balances have moved by the two amounts.
C18_DistinctIdsIndependent ==
    /\ \A w \in Threads :
           (pc[w] = "p_acquire" /\ ~HeldByOther(locks, arg[w].settlement_id, w, now))
           => acquire(locks, arg[w].settlement_id, w, ProcessTtl, now).ok
    /\ \A w1, w2 \in Threads :
           (/\ ProcessReturnedTrue(w1)
            /\ ProcessReturnedTrue(w2)
            /\ ret[w1].args.settlement_id # ret[w2].args.settlement_id)
           => LET s1 == settlements[ret[w1].args.settlement_id]
                  s2 == settlements[ret[w2].args.settlement_id] IN
              /\ s1.status = "COMPLETED" /\ s2.status = "COMPLETED"
              /\ burns[s1.settlement_id] = 1 /\ mints[s1.settlement_id] = 1
              /\ burns[s2.settlement_id] = 1 /\ mints[s2.settlement_id] = 1
              /\ get_balance(balances, "A", "user1") = InitBalance - s1.amount - s2.amount
              /\ get_balance(balances, "B", "user1") = s1.amount + s2.amount

\* a thread is about to acquire the lock of a PENDING settlement while another
\* thread is processing a different settlement and holds that one's live lock
C18_Witness ==
    \E w1, w2 \in Threads :
        /\ pc[w2] = "p_acquire"
        /\ settlements[arg[w2].settlement_id].status = "PENDING"
        /\ pc[w1] \in {"e_burn", "e_mint"}
        /\ arg[w1].settlement_id # arg[w2].settlement_id
        /\ HeldBy(locks, arg[w1].settlement_id, w1, now)

\* C19: in every state, every mapping of the idempotency store refers to a
\* settlement that is in the settlements table, so a caller that reads a mapping
\* finds its settlement.
C19_MappingRefersToSettlement ==
    \A k \in DOMAIN store : store[k] \in DOMAIN settlements

\* a caller is about to read a key that is mapped while another caller is between
\* storing its settlement and recording its key
C19_Witness ==
    \E c1, c2 \in Threads :
        /\ pc[c1] = "i_get"
        /\ arg[c1].idempotency_key \in DOMAIN store
        /\ pc[c2] = "i_put"

\* C20: initiate_settlement with a positive amount and a key that is mapped when
\* the store is read returns the mapped settlement, whatever its status and the
\* other arguments, and changes neither the settlements, nor the id counter, nor
\* the store.
C20_ReplayChangesNothing ==
    [][\A c \in Threads :
          (/\ pc[c] = "i_get"
           /\ arg[c].idempotency_key \in DOMAIN store
           /\ pc'[c] # "i_get")
          => /\ pc'[c] = "idle"
             /\ ret'[c].op = "initiate_settlement"
             /\ ret'[c].raised = None
             /\ ret'[c].value = store[arg[c].idempotency_key]
             /\ UNCHANGED <<settlements, settlement_counter, store, created>>]_vars

\* a replay with another amount has returned a settlement that is no longer PENDING
C20_Witness ==
    \E c \in Threads :
        /\ InitiateReturned(c)
        /\ settlements[ret[c].value].status \in {"COMPLETED", "FAILED"}
        /\ settlements[ret[c].value].amount # ret[c].args.amount
        /\ created = 1

\* thread w is in a process_settlement call that holds the lock and finds, or has
\* found, the settlement in a status other than PENDING
FoundNotPending(w) ==
    \/ /\ pc[w] = "p_check"
       /\ settlements[arg[w].settlement_id].status # "PENDING"
    \/ /\ pc[w] = "p_release"
       /\ loc[w].result = "False"

\* C21: process_settlement on a settlement whose status is not PENDING returns
\* false, makes no ledger call and leaves the settlement records and all ledger
\* balances unchanged: every step of such a call leaves them alone and leads to
\* the return of False.
C21_NotPendingIsNoOp ==
    [][\A w \in Threads :
          (FoundNotPending(w) /\ pc'[w] # pc[w]) =>
              /\ UNCHANGED <<settlements, settlement_counter, balances, tx_counter,
                             burns, mints>>
              /\ \/ /\ pc'[w] = "p_release"
                    /\ loc'[w].result = "False"
                 \/ /\ pc'[w] = "idle"
                    /\ ret'[w].op = "process_settlement"
                    /\ ret'[w].raised = None
                    /\ ret'[w].value = FALSE]_vars

\* a call has taken the lock after its expiry, found the settlement half way
\* through another call, and is about to return False
C21_Witness ==
    \E w \in Threads :
        /\ pc[w] = "p_release"
        /\ loc[w].result = "False"
        /\ settlements[arg[w].settlement_id].status \in {"BURNING", "BURNED", "MINTING"}

C23_RetryCompletedReturnsTrue ==
    \A w \in Threads :
        (/\ ret[w].op = "retry_settlement"
         /\ ret[w].args.settlement_id \in DOMAIN settlements
         /\ settlements[ret[w].args.settlement_id].status = "COMPLETED")
            => (ret[w].raised = None /\ ret[w].value = TRUE)

\* C24: when compensation of a settlement whose burn succeeded and whose mint
\* failed surfaces a failure, without having minted the amount back, the
\* settlement is left COMPENSATING, not FAILED.
C24_FailedCompensationStaysCompensating ==
    \A w \in Threads :
        (/\ FinishedOnMintFailure(w, "_compensate_settlement")
         /\ ret[w].raised # None
         /\ mints[ret[w].args.settlement_id] = 0)
            => settlements[ret[w].args.settlement_id].status = "COMPENSATING"

\* thread t holds the Lock of account a
HoldsAccount(t, a) == account_locks[a] = t

\* thread t is blocked at `with to_lock:` on the Lock thread u holds
WaitsFor(t, u) ==
    /\ pc[t] = "t_to_lock"
    /\ HoldsAccount(t, arg[t].from_account)
    /\ HoldsAccount(u, arg[t].to_account)

\* C25: concurrent _transfer_between_accounts calls in opposite directions never
\* deadlock: no state has one thread holding account A's lock and waiting for
\* account B's while another thread holds B's lock and waits for A's.
C25_NoTransferDeadlock ==
    \A t, u \in Workers :
        t # u => ~(WaitsFor(t, u) /\ WaitsFor(u, t))

\* no process_payment call is running
NoPaymentRunning == \A t \in Workers : pc[t] = "idle"

\* the sum of the amounts of the first n calls of pay_log
RECURSIVE AmountOfCalls(_)
AmountOfCalls(n) == IF n = 0 THEN 0 ELSE pay_log[n].amount + AmountOfCalls(n - 1)

\* C26: when the process_payment calls made, two or more, all had the same
\* idempotency key, user and amount, and the balance covered the amount, the
\* balance has been debited exactly once and every call has returned the same
\* transaction id.
C26_SameKeyDebitsOnce ==
    (/\ NoPaymentRunning
     /\ Len(pay_log) >= 2
     /\ pay_log[1].amount <= InitBalance
     /\ \A i \in 1..Len(pay_log) :
            /\ pay_log[i].idempotency_key = pay_log[1].idempotency_key
            /\ pay_log[i].user_id = pay_log[1].user_id
            /\ pay_log[i].amount = pay_log[1].amount)
    => /\ payment_balances[pay_log[1].user_id] = InitBalance - pay_log[1].amount
       /\ \A i \in 1..Len(pay_log) :
              /\ pay_log[i].result.success
              /\ pay_log[i].result.transaction_id = pay_log[1].result.transaction_id

\* C27: when the process_payment calls made for one user had pairwise distinct
\* idempotency keys and the initial balance covered the sum of their amounts,
\* every payment has succeeded and the balance is the initial balance minus that
\* sum.
C27_DistinctKeysNoLostUpdate ==
    (/\ NoPaymentRunning
     /\ Len(pay_log) >= 2
     /\ AmountOfCalls(Len(pay_log)) <= InitBalance
     /\ \A i, j \in 1..Len(pay_log) :
            /\ pay_log[i].user_id = pay_log[1].user_id
            /\ i # j => pay_log[i].idempotency_key # pay_log[j].idempotency_key)
    => /\ \A i \in 1..Len(pay_log) : pay_log[i].result.success
       /\ payment_balances[pay_log[1].user_id] = InitBalance - AmountOfCalls(Len(pay_log))

\* the status changes the lifecycle allows
StatusEdges ==
    {<<"PENDING", "PROCESSING">>, <<"PROCESSING", "BURNING">>, <<"BURNING", "BURNED">>,
     <<"BURNED", "MINTING">>, <<"MINTING", "MINTED">>, <<"MINTED", "COMPLETED">>,
     <<"PROCESSING", "FAILED">>, <<"BURNING", "FAILED">>, <<"MINTING", "FAILED">>,
     <<"FAILED", "PROCESSING">>,
     <<"BURNED", "COMPENSATING">>, <<"FAILED", "COMPENSATING">>,
     <<"COMPENSATING", "COMPENSATED">>}

\* C28: every change of a settlement's status is an edge of the lifecycle graph
\* PENDING -> PROCESSING -> BURNING -> BURNED -> MINTING -> MINTED -> COMPLETED,
\* with FAILED reached from PROCESSING, BURNING or MINTING, left by retry to
\* PROCESSING, and compensation from BURNED or FAILED; COMPLETED and COMPENSATED
\* are never left.
C28_StatusFollowsGraph ==
    [][\A sid \in DOMAIN settlements :
          settlements'[sid].status # settlements[sid].status
          => <<settlements[sid].status, settlements'[sid].status>> \in StatusEdges]_vars

\* C29: burnTxHash and mintTxHash each change at most once, from unset to a
\* hash: once set, a hash is never cleared or overwritten.
C29_HashesSetOnce ==
    [][\A sid \in DOMAIN settlements :
          /\ settlements[sid].burn_tx_hash # NoHash
             => settlements'[sid].burn_tx_hash = settlements[sid].burn_tx_hash
          /\ settlements[sid].mint_tx_hash # NoHash
             => settlements'[sid].mint_tx_hash = settlements[sid].mint_tx_hash]_vars

\* C30: a settlement whose status is BURNED, MINTING, MINTED or COMPLETED has its
\* burnTxHash set, and one whose status is MINTED or COMPLETED has its mintTxHash
\* set.
C30_StatusImpliesHashes ==
    \A sid \in DOMAIN settlements :
        /\ settlements[sid].status \in {"BURNED", "MINTING", "MINTED", "COMPLETED"}
           => settlements[sid].burn_tx_hash # NoHash
        /\ settlements[sid].status \in {"MINTED", "COMPLETED"}
           => settlements[sid].mint_tx_hash # NoHash

\* a settlement is MINTED, with both hashes recorded
C30_Witness ==
    \E sid \in DOMAIN settlements :
        /\ settlements[sid].status = "MINTED"
        /\ settlements[sid].burn_tx_hash # NoHash
        /\ settlements[sid].mint_tx_hash # NoHash

\* C31: once burnTxHash has been recorded for a settlement the engine makes no
\* further call of the ledger's burn for it, and once mintTxHash has been
\* recorded no further call of the ledger's mint.
C31_NoLedgerCallAfterHash ==
    [][\A w \in Threads :
          /\ (pc[w] = "e_burn" /\ pc'[w] \in {"e_burn_hash", "e_error"})
             => settlements[arg[w].settlement_id].burn_tx_hash = NoHash
          /\ (pc[w] = "e_mint" /\ pc'[w] \in {"e_mint_hash", "e_error"})
             => settlements[arg[w].settlement_id].mint_tx_hash = NoHash]_vars

\* C32: after its creation, every write to a settlement's status, errorMessage,
\* burnTxHash or mintTxHash is made by a thread that at that instant holds the
\* non-expired distributed lock of the settlement's id.
C32_WritesUnderLock ==
    [][\A w \in Threads :
          (/\ pc[w] # "idle"
           /\ arg[w].op = "process_settlement"
           /\ pc'[w] # pc[w]
           /\ settlements'[arg[w].settlement_id] # settlements[arg[w].settlement_id])
          => HeldBy(locks, arg[w].settlement_id, w, now)]_vars

\* C33: a successful acquire(key, h, ttl) leaves exactly one record for key, held
\* by h, whose expiry is the time of the call plus the ttl passed to the call.
C33_AcquireSetsExpiry ==
    (lockCall.op = "acquire" /\ lockCall.result = TRUE)
    => \E r \in locks :
           /\ LocksAt(locks, lockCall.lock_key) = {r}
           /\ r.holder_id = lockCall.holder_id
           /\ r.acquired_at + r.ttl_seconds = lockCall.at + lockCall.ttl

\* C40: is_locked(key) returns true exactly when a non-expired record exists for
\* key, and removes only an expired record of that key; cleanup_expired_locks
\* removes exactly the records expired at the time of the call and returns the
\* number of records it removed.
C40_IsLockedAndCleanup ==
    /\ lockCall.op = "is_locked"
       => /\ lockCall.result = (\E r \in lockCall.before :
                                   r.lock_key = lockCall.lock_key /\ Live(r, lockCall.at))
          /\ locks = {r \in lockCall.before :
                         r.lock_key # lockCall.lock_key \/ Live(r, lockCall.at)}
    /\ lockCall.op = "cleanup_expired_locks"
       => /\ locks = {r \in lockCall.before : Live(r, lockCall.at)}
          /\ lockCall.result = Cardinality(lockCall.before \ locks)

\* cleanup_expired_locks has removed an expired record and left a live one
C40_Witness ==
    /\ lockCall.op = "cleanup_expired_locks"
    /\ lockCall.result >= 1
    /\ \E r \in locks : Live(r, lockCall.at)

\* C39: a process_settlement call that fails to acquire the lock, another holder
\* having a non-expired record for the settlement, returns false at once, without
\* calling release, and leaves the lock table, the settlements and the ledger
\* unchanged.
C39_FailedAcquireIsNoOp ==
    [][\A w \in Threads :
          (/\ pc[w] = "p_acquire"
           /\ pc'[w] # pc[w]
           /\ HeldByOther(locks, arg[w].settlement_id, w, now))
          => /\ pc'[w] = "idle"
             /\ ret'[w].op = "process_settlement"
             /\ ret'[w].raised = None
             /\ ret'[w].value = FALSE
             /\ UNCHANGED <<locks, settlements, settlement_counter, balances, tx_counter,
                            burns, mints>>]_vars

\* a call has returned False for a PENDING settlement that another worker holds
C39_Witness ==
    \E w \in Threads :
        /\ ret[w].op = "process_settlement"
        /\ ret[w].raised = None
        /\ ret[w].value = FALSE
        /\ ret[w].args.settlement_id \in DOMAIN settlements
        /\ settlements[ret[w].args.settlement_id].status = "PENDING"
        /\ HeldByOther(locks, ret[w].args.settlement_id, w, now)

\* the lock keys for which thread w has a non-expired record
KeysHeldBy(w) == {k \in SettlementIds : HeldBy(locks, k, w, now)}

\* C37: at every instant each worker is the holder of at most one non-expired
\* distributed lock key, also when it processes several settlements one after
\* another.
C37_OneLockPerWorker ==
    \A w \in Threads : Cardinality(KeysHeldBy(w)) <= 1

\* the clients whose initiate_settlement call has returned a settlement
InitiateDone == {c \in Clients : InitiateReturned(c)}

\* C38: under any interleaving of concurrent initiate_settlement calls with
\* pairwise distinct idempotency keys, the settlements returned have pairwise
\* different ids, no settlement is stored over another, and once the calls have
\* ended the number of settlements is the number of distinct keys used.
C38_DistinctKeysDistinctIds ==
    /\ \A c1, c2 \in InitiateDone : c1 # c2 => ret[c1].value # ret[c2].value
    /\ created = Cardinality(DOMAIN settlements)
    /\ (\A c \in Clients : pc[c] = "idle")
       => Cardinality(DOMAIN settlements)
              = Cardinality({ret[c].args.idempotency_key : c \in InitiateDone})

\* both clients' calls have returned
C38_Witness ==
    /\ InitiateDone = Clients
    /\ Cardinality(DOMAIN settlements) = 2

\* C34: the list returned by get_all_settlements is a point-in-time snapshot: the
\* status and hash fields a reader finds in a returned settlement are those the
\* settlement had when the list was returned, whatever a worker does later.
C34_SnapshotIsStable ==
    \A i \in 1..Len(snapshot) :
        /\ SnapshotElement(i).status = snapshot_seen[snapshot[i]].status
        /\ SnapshotElement(i).burn_tx_hash = snapshot_seen[snapshot[i]].burn_tx_hash
        /\ SnapshotElement(i).mint_tx_hash = snapshot_seen[snapshot[i]].mint_tx_hash

\* pool worker w is between two calls, the last of which raised, with settlements
\* of its snapshot still to process
RaisedWithWorkLeft(w) ==
    /\ w \in workers
    /\ pc[w] = "idle"
    /\ ProcessRaised(w)
    /\ pending[w] # <<>>

\* C35: in the worker loop a process_settlement call that raises does not stop
\* the worker: the raise leaves the worker in its loop with the rest of its
\* snapshot, and the worker goes on to call process_settlement for the next
\* settlement of the snapshot.
C35_WorkerSurvivesRaise ==
    /\ [][\A w \in workers :
             (pc[w] = "p_release" /\ loc[w].result = "raise" /\ pc'[w] # pc[w])
             => /\ pc'[w] = "idle"
                /\ w \in workers'
                /\ pending'[w] = pending[w]]_vars
    /\ \A w \in Workers : RaisedWithWorkLeft(w) ~> (pc[w] = "p_acquire")

\* one worker alone has failed the first settlement and completed the second
C35_Witness ==
    /\ workers = {"Worker-0"}
    /\ DOMAIN settlements = {1, 2}
    /\ settlements[1].status = "FAILED"
    /\ settlements[2].status = "COMPLETED"

\* the statuses of a settlement that a process_settlement call is half way through
MidStage == {"PROCESSING", "BURNING", "BURNED", "MINTING", "MINTED"}

\* the pool has been stopped
Stopped == ~running /\ workers # {}

\* every worker has left its loop, and no settlement is left half way
AllWorkersDone ==
    /\ \A w \in workers : pc[w] = "w_exit"
    /\ \A sid \in DOMAIN settlements : settlements[sid].status \notin MidStage

\* C36: after WorkerPool.stop() a worker that comes to its loop test leaves the
\* loop, and a worker that has left starts no new scan; every worker eventually
\* leaves its loop, and a worker that is inside process_settlement when stop() is
\* called completes the call: no settlement is left in PROCESSING, BURNING,
\* BURNED, MINTING or MINTED.
C36_StopLetsWorkersFinish ==
    /\ [][\A w \in workers :
             /\ (Stopped /\ pc[w] = "idle" /\ pending[w] = <<>> /\ pc'[w] # pc[w])
                => pc'[w] = "w_exit"
             /\ pc[w] = "w_exit" => (pc'[w] = "w_exit" /\ pending'[w] = <<>>)]_vars
    /\ Stopped ~> AllWorkersDone

\* the pool has been stopped while a worker is between the burn and the mint
C36_Witness ==
    /\ Stopped
    /\ \E w \in workers : pc[w] = "e_mint"

====
